---- MODULE Spec2Model ----
(***************************************************************************)
(* Model of algorithmVisualizer.py: the Node/Grid data model, the event    *)
(* handlers of PathfindingVisualizer (mouse click, key press, popup) and   *)
(* the four searches (dijkstra, a_star, bfs, dfs) with reconstruct_path.   *)
(* A search is modelled one loop iteration per step; the event loop does   *)
(* not run while a search is in progress (the program is single-threaded). *)
(***************************************************************************)
EXTENDS Integers, Sequences, FiniteSets, TLC

\* ---------------------------------------------------------------- bounds
\* Grid dimensions (30 x 30 in the source, scaled down here).
ROWS == 2
COLS == 3
\* The largest number of Wall cells the model places between two resets.
MaxWalls == 2
\* The largest number of algorithm runs the model starts.
MaxRuns == 2

\* ------------------------------------------------------ program constants
WIDTH == 800
HEIGHT == 800
CELL_SIZE == WIDTH \div COLS

EMPTY == 0
START == 1
END == 2
WALL == 3
PATH == 4
PROCESSING == 5

\* float("inf"): larger than every finite distance of the grid.
INF == 1000000
\* Python's None for node references (grid.start, grid.end, node.prev).
None == -1

Cells == 0 .. (ROWS * COLS - 1)
RowOf(n) == n \div COLS
ColOf(n) == n % COLS
NodeAt(r, c) == r * COLS + c

AlgKeys == {"d", "a", "b", "f"}
Keys == AlgKeys \cup {"c", "r"}

VARIABLES
    state,          \* node.state of every node
    distance,       \* node.distance
    heuristic,      \* node.heuristic
    prev,           \* node.prev (a cell or None)
    start,          \* grid.start (a cell or None)
    end,            \* grid.end (a cell or None)
    visited_count,  \* self.visited_count
    path_length,    \* self.path_length
    pc,             \* "idle", "search", "reconstruct", "popup", "crashed"
    alg,            \* the algorithm being run: one of AlgKeys, or "none"
    frontier,       \* open_set (heap array) / queue / stack of the run
    visited,        \* the local set `visited` of bfs and dfs
    vc,             \* the local visited_count of the running algorithm
    node,           \* the cursor `node` of reconstruct_path
    pl,             \* the local path_length of reconstruct_path
    event,          \* the last event the event loop dispatched
    runs,           \* number of runs started so far
    fresh,          \* the current/last run began on a grid no search had touched
    reached,        \* the current/last run dequeued End
    marked,         \* the nodes the current/last run marked PROCESSING, in order
    steps           \* loop iterations the current/last run has executed

vars == <<state, distance, heuristic, prev, start, end, visited_count,
          path_length, pc, alg, frontier, visited, vc, node, pl, event,
          runs, fresh, reached, marked, steps>>

\* The program state as one record, so that the handlers can be written as
\* functions from state to state.
Cur ==
    [state |-> state, distance |-> distance, heuristic |-> heuristic,
     prev |-> prev, start |-> start, end |-> end,
     visited_count |-> visited_count, path_length |-> path_length,
     pc |-> pc, alg |-> alg, frontier |-> frontier, visited |-> visited,
     vc |-> vc, node |-> node, pl |-> pl, fresh |-> fresh,
     reached |-> reached, marked |-> marked, steps |-> steps]

Install(s) ==
    /\ state' = s.state
    /\ distance' = s.distance
    /\ heuristic' = s.heuristic
    /\ prev' = s.prev
    /\ start' = s.start
    /\ end' = s.end
    /\ visited_count' = s.visited_count
    /\ path_length' = s.path_length
    /\ pc' = s.pc
    /\ alg' = s.alg
    /\ frontier' = s.frontier
    /\ visited' = s.visited
    /\ vc' = s.vc
    /\ node' = s.node
    /\ pl' = s.pl
    /\ fresh' = s.fresh
    /\ reached' = s.reached
    /\ marked' = s.marked
    /\ steps' = s.steps

\* ------------------------------------------------------------------ Node
\* Mutant of Node.__lt__: the comparison reversed.
Lt_reversed(dist, a, b) == dist[a] > dist[b]

\* Node.__lt__: nodes compare by their current distance field.
Lt(dist, a, b) == dist[a] < dist[b]

\* Mutant of Grid.reset: the start/end designation survives.
GridReset_keeps_endpoints(s) ==
    [s EXCEPT !.state = [n \in Cells |-> EMPTY],
              !.prev = [n \in Cells |-> None],
              !.distance = [n \in Cells |-> INF],
              !.heuristic = [n \in Cells |-> 0]]

\* Node.reset applied to every node, then start = end = None (Grid.reset).
GridReset(s) ==
    [s EXCEPT !.state = [n \in Cells |-> EMPTY],
              !.prev = [n \in Cells |-> None],
              !.distance = [n \in Cells |-> INF],
              !.heuristic = [n \in Cells |-> 0],
              !.start = None,
              !.end = None]

\* Grid.get_neighbors: right, down, left, up; in bounds and not a Wall.
directions == << <<0, 1>>, <<1, 0>>, <<0, -1>>, <<-1, 0>> >>

InBounds(r, c) == 0 <= r /\ r < ROWS /\ 0 <= c /\ c < COLS

\* Mutant of get_neighbors: the `state != WALL` test is dropped.
get_neighbors_unfiltered(st, n) ==
    LET cand == [i \in 1..4 |-> <<RowOf(n) + directions[i][1],
                                  ColOf(n) + directions[i][2]>>]
        ok(p) == InBounds(p[1], p[2])
        kept == SelectSeq(cand, ok)
    IN  [i \in 1..Len(kept) |-> NodeAt(kept[i][1], kept[i][2])]

get_neighbors(st, n) ==
    LET cand == [i \in 1..4 |-> <<RowOf(n) + directions[i][1],
                                  ColOf(n) + directions[i][2]>>]
        ok(p) == InBounds(p[1], p[2]) /\ st[NodeAt(p[1], p[2])] # WALL
        kept == SelectSeq(cand, ok)
    IN  [i \in 1..Len(kept) |-> NodeAt(kept[i][1], kept[i][2])]

\* PathfindingVisualizer.heuristic: Manhattan distance.
Abs(x) == IF x < 0 THEN -x ELSE x
Manhattan(a, b) == Abs(RowOf(a) - RowOf(b)) + Abs(ColOf(a) - ColOf(b))

\* ------------------------------------------------- queue.PriorityQueue
\* heapq._siftdown(heap, startpos, pos), positions counted from 0.
RECURSIVE siftdown(_, _, _, _, _)
siftdown(dist, h, newitem, startpos, pos) ==
    IF pos > startpos
    THEN LET parentpos == (pos - 1) \div 2
             parent == h[parentpos + 1]
         IN  IF Lt(dist, newitem, parent)
             THEN siftdown(dist, [h EXCEPT ![pos + 1] = parent], newitem,
                           startpos, parentpos)
             ELSE [h EXCEPT ![pos + 1] = newitem]
    ELSE [h EXCEPT ![pos + 1] = newitem]

\* heapq._siftup(heap, pos): bubble the smaller child up to a leaf, then
\* sift the displaced item down from there.
RECURSIVE siftup(_, _, _, _, _)
siftup(dist, h, newitem, startpos, pos) ==
    LET endpos == Len(h)
        childpos == 2 * pos + 1
        rightpos == childpos + 1
        pick == IF rightpos < endpos
                   /\ ~Lt(dist, h[childpos + 1], h[rightpos + 1])
                THEN rightpos ELSE childpos
    IN  IF childpos < endpos
        THEN siftup(dist, [h EXCEPT ![pos + 1] = h[pick + 1]], newitem,
                    startpos, pick)
        ELSE siftdown(dist, h, newitem, startpos, pos)

\* PriorityQueue.put: heapq.heappush.
heappush(dist, h, item) ==
    siftdown(dist, Append(h, item), item, 0, Len(h))

\* PriorityQueue.get: heapq.heappop; the item and the remaining heap.
heappop(dist, h) ==
    LET lastelt == h[Len(h)]
        rest == SubSeq(h, 1, Len(h) - 1)
    IN  IF rest # << >>
        THEN [item |-> rest[1],
              heap |-> siftup(dist, [rest EXCEPT ![1] = lastelt], lastelt, 0, 0)]
        ELSE [item |-> lastelt, heap |-> rest]

\* --------------------------------------------------- reconstruct_path
\* Entering reconstruct_path(current): path_length = 0, node = current.
reconstruct_begin(s, current) ==
    [s EXCEPT !.pc = "reconstruct", !.node = current, !.pl = 0,
              !.reached = TRUE]

\* Mutant of the return: the local visited_count is returned on every path.
Return_counted(s, count) ==
    [s EXCEPT !.visited_count = s.vc, !.pc = "popup", !.frontier = << >>,
              !.visited = {}, !.vc = 0, !.node = None, !.pl = 0]

\* The value run_algorithm stores once the algorithm has returned.
Return(s, count) ==
    [s EXCEPT !.visited_count = count, !.pc = "popup", !.frontier = << >>,
              !.visited = {}, !.vc = 0, !.node = None, !.pl = 0]

\* One iteration of `while node:`; when node is None the function returns
\* path_length to the algorithm, which returns visited_count.
reconstruct_step(s) ==
    IF s.node = None
    THEN Return([s EXCEPT !.path_length = s.pl], s.vc)
    ELSE LET counted == s.state[s.node] \notin {START, END}
         IN  [s EXCEPT !.state[s.node] = IF counted THEN PATH ELSE @,
                       !.pl = IF counted THEN @ + 1 ELSE @,
                       !.node = s.prev[s.node]]

\* ----------------------------------------------------------- dijkstra
dijkstra_begin(s) ==
    LET d0 == [s.distance EXCEPT ![s.start] = 0]
    IN  [s EXCEPT !.alg = "d", !.pc = "search", !.distance = d0,
                  !.frontier = heappush(d0, << >>, s.start),
                  !.visited = {}, !.vc = 0]

\* The relaxation loop over get_neighbors(current), from neighbour i on.
RECURSIVE dijkstra_relax(_, _, _, _)
dijkstra_relax(s, current, nbrs, i) ==
    IF i > Len(nbrs) THEN s
    ELSE LET neighbor == nbrs[i]
             temp_distance == s.distance[current] + 1
         IN  IF temp_distance < s.distance[neighbor]
             THEN LET d2 == [s.distance EXCEPT ![neighbor] = temp_distance]
                  IN  dijkstra_relax(
                          [s EXCEPT !.distance = d2,
                                    !.prev[neighbor] = current,
                                    !.frontier = heappush(d2, s.frontier, neighbor)],
                          current, nbrs, i + 1)
             ELSE dijkstra_relax(s, current, nbrs, i + 1)

\* One iteration of `while not open_set.empty()`, or the return after it.
dijkstra_step(s) ==
    IF s.frontier = << >> THEN Return(s, 0)
    ELSE LET got == heappop(s.distance, s.frontier)
             current == got.item
             s1 == [s EXCEPT !.frontier = got.heap]
         IN  IF current = s.end
             THEN reconstruct_begin(s1, current)
             ELSE LET s2 == [s1 EXCEPT !.state[current] = PROCESSING,
                                       !.vc = @ + 1,
                                       !.marked = Append(@, current)]
                  IN  dijkstra_relax(s2, current,
                                     get_neighbors(s2.state, current), 1)

\* ------------------------------------------------------------- a_star
a_star_begin(s) ==
    LET d0 == [s.distance EXCEPT ![s.start] = 0]
    IN  [s EXCEPT !.alg = "a", !.pc = "search", !.distance = d0,
                  !.frontier = heappush(d0, << >>, s.start),
                  !.visited = {}, !.vc = 0]

\* Mutant of the relaxation of a_star: `<=` for `<`.
RECURSIVE a_star_relax_le(_, _, _, _)
a_star_relax_le(s, current, nbrs, i) ==
    IF i > Len(nbrs) THEN s
    ELSE LET neighbor == nbrs[i]
             temp_distance == s.distance[current] + 1
         IN  IF temp_distance <= s.distance[neighbor]
             THEN LET d2 == [s.distance EXCEPT ![neighbor] = temp_distance]
                  IN  a_star_relax_le(
                          [s EXCEPT !.distance = d2,
                                    !.prev[neighbor] = current,
                                    !.heuristic[neighbor] = Manhattan(neighbor, s.end),
                                    !.frontier = heappush(d2, s.frontier, neighbor)],
                          current, nbrs, i + 1)
             ELSE a_star_relax_le(s, current, nbrs, i + 1)

RECURSIVE a_star_relax(_, _, _, _)
a_star_relax(s, current, nbrs, i) ==
    IF i > Len(nbrs) THEN s
    ELSE LET neighbor == nbrs[i]
             temp_distance == s.distance[current] + 1
         IN  IF temp_distance < s.distance[neighbor]
             THEN LET d2 == [s.distance EXCEPT ![neighbor] = temp_distance]
                  IN  a_star_relax(
                          [s EXCEPT !.distance = d2,
                                    !.prev[neighbor] = current,
                                    !.heuristic[neighbor] = Manhattan(neighbor, s.end),
                                    !.frontier = heappush(d2, s.frontier, neighbor)],
                          current, nbrs, i + 1)
             ELSE a_star_relax(s, current, nbrs, i + 1)

a_star_step(s) ==
    IF s.frontier = << >> THEN Return(s, 0)
    ELSE LET got == heappop(s.distance, s.frontier)
             current == got.item
             s1 == [s EXCEPT !.frontier = got.heap]
         IN  IF current = s.end
             THEN reconstruct_begin(s1, current)
             ELSE LET s2 == [s1 EXCEPT !.state[current] = PROCESSING,
                                       !.vc = @ + 1,
                                       !.marked = Append(@, current)]
                  IN  a_star_relax(s2, current,
                                   get_neighbors(s2.state, current), 1)

\* ---------------------------------------------------------------- bfs
bfs_begin(s) ==
    [s EXCEPT !.alg = "b", !.pc = "search", !.frontier = <<s.start>>,
              !.visited = {s.start}, !.vc = 0]

\* Mutant of the bfs expansion: the `neighbor not in visited` test is dropped.
RECURSIVE bfs_expand_unchecked(_, _, _, _)
bfs_expand_unchecked(s, current, nbrs, i) ==
    IF i > Len(nbrs) THEN s
    ELSE LET neighbor == nbrs[i]
         IN  bfs_expand_unchecked(
                 [s EXCEPT !.visited = @ \cup {neighbor},
                           !.prev[neighbor] = current,
                           !.frontier = Append(@, neighbor)],
                 current, nbrs, i + 1)

RECURSIVE bfs_expand(_, _, _, _)
bfs_expand(s, current, nbrs, i) ==
    IF i > Len(nbrs) THEN s
    ELSE LET neighbor == nbrs[i]
         IN  IF neighbor \notin s.visited
             THEN bfs_expand([s EXCEPT !.visited = @ \cup {neighbor},
                                       !.prev[neighbor] = current,
                                       !.frontier = Append(@, neighbor)],
                             current, nbrs, i + 1)
             ELSE bfs_expand(s, current, nbrs, i + 1)

bfs_step(s) ==
    IF s.frontier = << >> THEN Return(s, 0)
    ELSE LET current == Head(s.frontier)
             s1 == [s EXCEPT !.frontier = Tail(@)]
         IN  IF current = s.end
             THEN reconstruct_begin(s1, current)
             ELSE LET s2 == [s1 EXCEPT !.state[current] = PROCESSING,
                                       !.vc = @ + 1,
                                       !.marked = Append(@, current)]
                  IN  bfs_expand(s2, current,
                                 get_neighbors(s2.state, current), 1)

\* ---------------------------------------------------------------- dfs
dfs_begin(s) ==
    [s EXCEPT !.alg = "f", !.pc = "search", !.frontier = <<s.start>>,
              !.visited = {}, !.vc = 0]

\* Mutant of the push loop of dfs: no `not in visited` test.
RECURSIVE dfs_expand_unchecked(_, _, _, _)
dfs_expand_unchecked(s, current, nbrs, i) ==
    IF i > Len(nbrs) THEN s
    ELSE dfs_expand_unchecked([s EXCEPT !.prev[nbrs[i]] = current,
                                        !.frontier = Append(@, nbrs[i])],
                              current, nbrs, i + 1)

RECURSIVE dfs_expand(_, _, _, _)
dfs_expand(s, current, nbrs, i) ==
    IF i > Len(nbrs) THEN s
    ELSE LET neighbor == nbrs[i]
         IN  IF neighbor \notin s.visited
             THEN dfs_expand([s EXCEPT !.prev[neighbor] = current,
                                       !.frontier = Append(@, neighbor)],
                             current, nbrs, i + 1)
             ELSE dfs_expand(s, current, nbrs, i + 1)

\* Mutant of the dfs loop body: `stack[-1]` for `stack.pop()`, the entry on
\* top of the stack is read but not removed.
dfs_step_peek(s) ==
    IF s.frontier = << >> THEN Return(s, 0)
    ELSE LET current == s.frontier[Len(s.frontier)]
         IN  IF current = s.end
             THEN reconstruct_begin(s, current)
             ELSE IF current \notin s.visited
                  THEN LET s2 == [s EXCEPT !.visited = @ \cup {current},
                                           !.state[current] = PROCESSING,
                                           !.vc = @ + 1,
                                           !.marked = Append(@, current)]
                       IN  dfs_expand(s2, current,
                                      get_neighbors(s2.state, current), 1)
                  ELSE s

\* Mutant of the dfs loop body: no `current not in visited` test at pop.
dfs_step_unskipped(s) ==
    IF s.frontier = << >> THEN Return(s, 0)
    ELSE LET current == s.frontier[Len(s.frontier)]
             s1 == [s EXCEPT !.frontier = SubSeq(@, 1, Len(@) - 1)]
         IN  IF current = s.end
             THEN reconstruct_begin(s1, current)
             ELSE LET s2 == [s1 EXCEPT !.visited = @ \cup {current},
                                       !.state[current] = PROCESSING,
                                       !.vc = @ + 1,
                                       !.marked = Append(@, current)]
                  IN  dfs_expand(s2, current,
                                 get_neighbors(s2.state, current), 1)

dfs_step(s) ==
    IF s.frontier = << >> THEN Return(s, 0)
    ELSE LET current == s.frontier[Len(s.frontier)]
             s1 == [s EXCEPT !.frontier = SubSeq(@, 1, Len(@) - 1)]
         IN  IF current = s.end
             THEN reconstruct_begin(s1, current)
             ELSE IF current \notin s1.visited
                  THEN LET s2 == [s1 EXCEPT !.visited = @ \cup {current},
                                            !.state[current] = PROCESSING,
                                            !.vc = @ + 1,
                                            !.marked = Append(@, current)]
                       IN  dfs_expand(s2, current,
                                      get_neighbors(s2.state, current), 1)
                  ELSE s1

\* ------------------------------------------------------ run_algorithm
\* No search has touched the grid s since it was created or last reset.
IsFresh(s) ==
    \A n \in Cells :
        /\ s.distance[n] = INF
        /\ s.prev[n] = None
        /\ s.state[n] \in {EMPTY, START, END, WALL}

\* The call algorithm() of run_algorithm up to its first loop test.
algorithm_begin(k, s) ==
    LET s0 == [s EXCEPT !.fresh = IsFresh(s), !.reached = FALSE,
                        !.marked = << >>, !.steps = 0]
    IN  CASE k = "d" -> dijkstra_begin(s0)
          [] k = "a" -> a_star_begin(s0)
          [] k = "b" -> bfs_begin(s0)
          [] k = "f" -> dfs_begin(s0)

\* One step of the running algorithm or of its path reconstruction.
algorithm_step(s) ==
    LET t == IF s.pc = "reconstruct" THEN reconstruct_step(s)
             ELSE CASE s.alg = "d" -> dijkstra_step(s)
                    [] s.alg = "a" -> a_star_step(s)
                    [] s.alg = "b" -> bfs_step(s)
                    [] s.alg = "f" -> dfs_step(s)
    IN  [t EXCEPT !.steps = s.steps + 1]

\* algorithm() run until run_algorithm reaches show_popup.
RECURSIVE run_algorithm(_)
run_algorithm(s) ==
    IF s.pc \in {"search", "reconstruct"}
    THEN run_algorithm(algorithm_step(s))
    ELSE s

\* ------------------------------------------------------------ the grid
Walls == {n \in Cells : state[n] = WALL}

\* Rows and columns a mouse position inside the window maps to
\* (col, row = x // CELL_SIZE, y // CELL_SIZE).
ClickCols == {x \div CELL_SIZE : x \in 0 .. (WIDTH - 1)}
ClickRows == {y \div CELL_SIZE : y \in 0 .. (HEIGHT - 1)}

\* Mutant of handle_mouse_click: the `node.state == 0` test is dropped.
place_anywhere(s, n) ==
    IF s.start = None
    THEN [s EXCEPT !.state[n] = START, !.start = n]
    ELSE IF s.end = None
         THEN [s EXCEPT !.state[n] = END, !.end = n]
         ELSE [s EXCEPT !.state[n] = WALL]

\* Mutant of handle_mouse_click: the second branch does not test grid.end.
place_end_again(s, n) ==
    IF s.state[n] = EMPTY
    THEN IF s.start = None
         THEN [s EXCEPT !.state[n] = START, !.start = n]
         ELSE [s EXCEPT !.state[n] = END, !.end = n]
    ELSE s

\* handle_mouse_click on the node at (row, col).
place(s, n) ==
    IF s.state[n] = EMPTY
    THEN IF s.start = None
         THEN [s EXCEPT !.state[n] = START, !.start = n]
         ELSE IF s.end = None
              THEN [s EXCEPT !.state[n] = END, !.end = n]
              ELSE [s EXCEPT !.state[n] = WALL]
    ELSE s

\* ------------------------------------------------------------- actions
Init ==
    /\ state = [n \in Cells |-> EMPTY]
    /\ distance = [n \in Cells |-> INF]
    /\ heuristic = [n \in Cells |-> 0]
    /\ prev = [n \in Cells |-> None]
    /\ start = None
    /\ end = None
    /\ visited_count = 0
    /\ path_length = 0
    /\ pc = "idle"
    /\ alg = "none"
    /\ frontier = << >>
    /\ visited = {}
    /\ vc = 0
    /\ node = None
    /\ pl = 0
    /\ event = "none"
    /\ runs = 0
    /\ fresh = FALSE
    /\ reached = FALSE
    /\ marked = << >>
    /\ steps = 0

\* MOUSEBUTTONDOWN inside the grid.
HandleMouseClick ==
    /\ pc = "idle"
    /\ \E row \in ClickRows, col \in ClickCols :
          /\ InBounds(row, col)
          /\ LET s == place(Cur, NodeAt(row, col))
             IN  /\ Cardinality({n \in Cells : s.state[n] = WALL}) <= MaxWalls
                 /\ Install(s)
    /\ event' = "click"
    /\ UNCHANGED runs

\* MOUSEBUTTONDOWN at a position whose row or column is not an index of
\* grid.grid: the subscript raises IndexError and the program ends.
ClickOutsideGrid ==
    /\ pc = "idle"
    /\ \E row \in ClickRows, col \in ClickCols : ~InBounds(row, col)
    /\ pc' = "crashed"
    /\ event' = "click"
    /\ UNCHANGED <<state, distance, heuristic, prev, start, end,
                   visited_count, path_length, alg, frontier, visited, vc,
                   node, pl, runs, fresh, reached, marked, steps>>

\* Mutant of the guard: grid.end is not tested.
CanRun_start_only(s) == s.start # None

\* The guard of the four algorithm branches of handle_key_press.
CanRun(s) == s.start # None /\ s.end # None

\* KEYDOWN of D, A, B or F with Start and End placed: run_algorithm begins.
KeyAlgorithm(k) ==
    /\ pc = "idle"
    /\ k \in AlgKeys
    /\ CanRun(Cur)
    /\ runs < MaxRuns
    /\ Install(algorithm_begin(k, Cur))
    /\ event' = k
    /\ runs' = runs + 1

\* KEYDOWN of D, A, B or F matching no branch of handle_key_press.
KeyIgnored(k) ==
    /\ pc = "idle"
    /\ k \in AlgKeys
    /\ ~CanRun(Cur)
    /\ event' = k
    /\ UNCHANGED <<state, distance, heuristic, prev, start, end,
                   visited_count, path_length, pc, alg, frontier, visited,
                   vc, node, pl, runs, fresh, reached, marked, steps>>

\* KEYDOWN of C or R: both branches call grid.reset().
KeyReset(k) ==
    /\ pc = "idle"
    /\ k \in {"c", "r"}
    /\ Install(GridReset(Cur))
    /\ event' = k
    /\ UNCHANGED runs

\* One loop iteration of the running algorithm.
SearchStep ==
    /\ pc = "search"
    /\ Install(algorithm_step(Cur))
    /\ UNCHANGED <<event, runs>>

\* One loop iteration of reconstruct_path.
ReconstructStep ==
    /\ pc = "reconstruct"
    /\ Install(algorithm_step(Cur))
    /\ UNCHANGED <<event, runs>>

\* show_popup returns on the next KEYDOWN; the event is consumed there.
ClosePopup ==
    /\ pc = "popup"
    /\ pc' = "idle"
    /\ alg' = "none"
    /\ event' = "keydown"
    /\ fresh' = FALSE
    /\ reached' = FALSE
    /\ marked' = << >>
    /\ steps' = 0
    /\ UNCHANGED <<state, distance, heuristic, prev, start, end,
                   visited_count, path_length, frontier, visited, vc, node,
                   pl, runs>>

Next ==
    \/ HandleMouseClick
    \/ ClickOutsideGrid
    \/ \E k \in Keys : KeyAlgorithm(k)
    \/ \E k \in Keys : KeyIgnored(k)
    \/ \E k \in Keys : KeyReset(k)
    \/ SearchStep
    \/ ReconstructStep
    \/ ClosePopup

Spec == Init /\ [][Next]_vars

\* One more iteration of the loop of the running algorithm or of
\* reconstruct_path, seen through the iteration counter: SearchStep and
\* ReconstructStep are the only steps of Next taken in these two control
\* states, each of them is enabled there and each adds one to steps.
LoopIteration ==
    /\ pc \in {"search", "reconstruct"}
    /\ steps' = steps + 1

\* The event loop with its scheduling: run_algorithm executes the algorithm
\* and reconstruct_path synchronously inside handle_key_press, with no
\* blocking call in either loop, so an iteration that can be taken is taken.
SpecLive ==
    /\ Init
    /\ [][Next]_vars
    /\ WF_steps(LoopIteration)

\* ----------------------------------------- searches on configured grids
\* A grid as the clicks leave it before the first search: Start, End and
\* at most MaxWalls Walls placed, nothing else touched.
InitFresh ==
    /\ \E s0 \in Cells, e0 \in Cells, W \in SUBSET Cells :
          /\ s0 # e0
          /\ s0 \notin W
          /\ e0 \notin W
          /\ Cardinality(W) <= MaxWalls
          /\ start = s0
          /\ end = e0
          /\ state = [n \in Cells |-> IF n = s0 THEN START
                                      ELSE IF n = e0 THEN END
                                      ELSE IF n \in W THEN WALL ELSE EMPTY]
    /\ distance = [n \in Cells |-> INF]
    /\ heuristic = [n \in Cells |-> 0]
    /\ prev = [n \in Cells |-> None]
    /\ visited_count = 0
    /\ path_length = 0
    /\ pc = "idle"
    /\ alg = "none"
    /\ frontier = << >>
    /\ visited = {}
    /\ vc = 0
    /\ node = None
    /\ pl = 0
    /\ event = "click"
    /\ runs = 0
    /\ fresh = FALSE
    /\ reached = FALSE
    /\ marked = << >>
    /\ steps = 0

\* KEYDOWN of D, A, B or F handled up to show_popup: the whole search and
\* the path reconstruction it triggers.
RunAlgorithm(k) ==
    /\ pc = "idle"
    /\ k \in AlgKeys
    /\ CanRun(Cur)
    /\ runs < MaxRuns
    /\ Install(run_algorithm(algorithm_begin(k, Cur)))
    /\ event' = k
    /\ runs' = runs + 1

NextFresh == \E k \in AlgKeys : RunAlgorithm(k)

SpecFresh == InitFresh /\ [][NextFresh]_vars

\* ------------------------------------------------ reference definitions
\* 4-adjacency of two cells of the grid.
Adjacent(a, b) == Manhattan(a, b) = 1

\* The cells 4-adjacent to each cell.
AdjacentCells == [m \in Cells |-> {n \in Cells : Adjacent(m, n)}]

\* S together with the cells one step from S that are not Walls.
Expand(S) ==
    S \cup {n \in UNION {AdjacentCells[m] : m \in S} : state[n] # WALL}

\* The cells reachable from S through cells that are not Walls.
RECURSIVE Closure(_)
Closure(S) ==
    LET T == Expand(S)
    IN  IF T = S THEN S ELSE Closure(T)

\* Start's connected component of non-wall cells.
Component(a) == Closure({a})

\* Number of expansions of S, after k already made, until b is covered
\* (None when b is not reachable).
RECURSIVE StepsTo(_, _, _)
StepsTo(S, b, k) ==
    IF b \in S THEN k
    ELSE LET T == Expand(S)
         IN  IF T = S THEN None ELSE StepsTo(T, b, k + 1)

\* Edge count of a shortest path from a to b avoiding Walls.
ShortestDist(a, b) == StepsTo({a}, b, 0)

Reachable(a, b) == StepsTo({a}, b, 0) # None

\* The predecessor chain followed from n, cut after every cell of the grid
\* could have been listed once (a longer chain has a cycle).
RECURSIVE ChainFrom(_, _)
ChainFrom(n, k) ==
    IF n = None \/ k = 0 THEN << >>
    ELSE <<n>> \o ChainFrom(prev[n], k - 1)

Chain(n) == ChainFrom(n, ROWS * COLS + 1)

\* The grid as it was configured, with every trace of a search removed.
Configured ==
    [Cur EXCEPT
        !.state = [n \in Cells |-> IF n = start THEN START
                                   ELSE IF n = end THEN END
                                   ELSE IF state[n] = WALL THEN WALL
                                   ELSE EMPTY],
        !.distance = [n \in Cells |-> INF],
        !.heuristic = [n \in Cells |-> 0],
        !.prev = [n \in Cells |-> None],
        !.pc = "idle", !.alg = "none", !.frontier = << >>,
        !.visited = {}, !.vc = 0, !.node = None, !.pl = 0,
        !.fresh = FALSE, !.reached = FALSE, !.marked = << >>,
        !.steps = 0]

\* What dijkstra reports on the configured grid.
DijkstraResult == run_algorithm(dijkstra_begin(Configured))

\* ---------------------------------------------------------------- C1
\* C1: on a grid no search has touched, with End reachable from Start, each
\* of bfs, dijkstra and a_star dequeues End and sets path_length to the
\* number of edges of a shortest Start-to-End path.
C1_ShortestPathLength ==
    (pc = "popup" /\ fresh /\ alg \in {"b", "d", "a"} /\ Reachable(start, end))
        => (reached /\ path_length = ShortestDist(start, end))

\* A run of a_star that ended on a path of four edges around a Wall
\* between a Start and an End two cells apart.
C1_Witness ==
    /\ pc = "popup" /\ fresh /\ alg = "a" /\ reached
    /\ Walls # {}
    /\ path_length = 4
    /\ Manhattan(start, end) = 2

C4_ChainOk ==
    LET ch == Chain(end)
    IN  /\ Len(ch) >= 2
        /\ Len(ch) <= ROWS * COLS
        /\ ch[Len(ch)] = start
        /\ \A i \in 1 .. (Len(ch) - 1) : Adjacent(ch[i], ch[i + 1])
        /\ \A i \in 1 .. Len(ch) : state[ch[i]] # WALL
        /\ \A i, j \in 1 .. Len(ch) : ch[i] = ch[j] => i = j

\* C4: for dfs with End reachable, the predecessor chain from End ends at
\* Start, joins 4-adjacent cells only and contains no Wall, both when
\* reconstruct_path walks it and afterwards; path_length is its number of
\* edges and is at least the shortest Start-to-End edge count.
C4_DfsPath ==
    /\ (alg = "f" /\ pc = "reconstruct") => C4_ChainOk
    /\ (alg = "f" /\ pc = "popup" /\ Reachable(start, end))
          => /\ reached
             /\ C4_ChainOk
             /\ path_length = Len(Chain(end)) - 1
             /\ path_length >= ShortestDist(start, end)

\* A dfs run that returned a path longer than the shortest one.
C4_Witness ==
    /\ alg = "f" /\ pc = "popup" /\ reached
    /\ path_length > ShortestDist(start, end)

\* ---------------------------------------------------------------- C5
\* C5: from the same freshly configured grid with a Start-to-End path,
\* a_star returns an explored count no larger than dijkstra's and sets the
\* same path_length.
C5_AStarVsDijkstra ==
    (pc = "popup" /\ fresh /\ alg = "a" /\ Reachable(start, end))
        => LET d == DijkstraResult
           IN  /\ visited_count <= d.visited_count
               /\ path_length = d.path_length

\* An a_star run that explored several cells before it dequeued End.
C5_Witness ==
    /\ pc = "popup" /\ fresh /\ alg = "a" /\ reached
    /\ visited_count >= 3
    /\ DijkstraResult.visited_count >= 3

\* ---------------------------------------------------------------- C3
\* C3: a run whose frontier is exhausted without dequeuing End reports
\* path_length = 0 once run_algorithm has finished.
C3_NoPathReportsZero ==
    (pc = "popup" /\ ~reached) => path_length = 0

\* ---------------------------------------------------------------- C6
\* C6: key C resets distance, heuristic and predecessor of every node and
\* turns Visited/OnPath cells back to Empty, and leaves every Wall, Start
\* and End classification and the start/end designation unchanged.
C6_ClearKeepsPlacements ==
    [][(pc = "idle" /\ event' = "c")
          => /\ \A n \in Cells :
                   /\ distance'[n] = INF
                   /\ heuristic'[n] = 0
                   /\ prev'[n] = None
                   /\ state'[n] = IF state[n] \in {PATH, PROCESSING}
                                  THEN EMPTY ELSE state[n]
             /\ start' = start
             /\ end' = end]_vars

\* ---------------------------------------------------------------- C7
\* C7: in every reachable state the cell designated grid.start is
\* classified Start and the cell designated grid.end is classified End.
C7_EndpointsKeepClass ==
    /\ start # None => state[start] = START
    /\ end # None => state[end] = END

\* ---------------------------------------------------------------- C8
\* C8: an algorithm key pressed while Start or End is not placed starts no
\* search and changes no node's classification, distance or predecessor,
\* nor the start/end designation, visited_count or path_length.
C8_IgnoredKeyMutatesNothing ==
    [][(pc = "idle" /\ event' \in AlgKeys /\ (start = None \/ end = None))
          => /\ pc' = "idle"
             /\ alg' = alg
             /\ UNCHANGED <<state, distance, heuristic, prev, start, end,
                            visited_count, path_length>>]_vars

\* The state after an algorithm key was pressed with Start placed and End
\* not yet placed.
C8_Witness ==
    /\ pc = "idle" /\ event \in AlgKeys
    /\ start # None /\ end = None

\* ---------------------------------------------------------------- C9
\* The state key R leaves: every node Empty with distance infinity and no
\* predecessor, no Start and no End.
C9_AfterReset ==
    (pc = "idle" /\ event = "r")
        => /\ \A n \in Cells : /\ state[n] = EMPTY
                               /\ distance[n] = INF
                               /\ prev[n] = None
           /\ start = None
           /\ end = None

\* The event loop leaves "idle" for a search only on an algorithm key with
\* Start and End placed, and only a click places either.
C9_SearchNeedsEndpoints ==
    /\ (pc = "idle" /\ pc' # "idle" /\ pc' # "crashed")
          => (start # None /\ end # None /\ event' \in AlgKeys)
    /\ ((start = None /\ start' # None) \/ (end = None /\ end' # None))
          => (pc = "idle" /\ event' = "click")

\* C9: after key R every node is Empty with distance infinity and no
\* predecessor and the grid has neither Start nor End; from then on a
\* search starts only once clicks have placed both again.
C9_FullReset == [](C9_AfterReset) /\ [][C9_SearchNeedsEndpoints]_vars

\* The state after key R pressed on a grid a search had run on.
C9_Witness ==
    /\ pc = "idle" /\ event = "r"
    /\ path_length > 0
    /\ runs > 0

\* --------------------------------------------------------------- C10
\* At most one cell is classified Start and at most one End, each being
\* the designated one; End is designated only if Start is, and the two are
\* distinct cells.
C10_Designation ==
    /\ Cardinality({n \in Cells : state[n] = START}) <= 1
    /\ Cardinality({n \in Cells : state[n] = END}) <= 1
    /\ \A n \in Cells : /\ state[n] = START => n = start
                        /\ state[n] = END => n = end
    /\ end # None => start # None
    /\ (start # None /\ end # None) => start # end

\* A click that places something turns one Empty cell into Start when no
\* Start is designated, else into End when no End is designated, else
\* into a Wall.
C10_ClickPlaces ==
    (pc = "idle" /\ event' = "click" /\ pc' = "idle"
       /\ <<state, start, end>>' # <<state, start, end>>)
        => \E n \in Cells :
              /\ state[n] = EMPTY
              /\ IF start = None
                 THEN /\ state' = [state EXCEPT ![n] = START]
                      /\ start' = n /\ end' = end
                 ELSE IF end = None
                 THEN /\ state' = [state EXCEPT ![n] = END]
                      /\ end' = n /\ start' = start
                 ELSE /\ state' = [state EXCEPT ![n] = WALL]
                      /\ start' = start /\ end' = end

\* C10: clicks on Empty cells assign Start first, End second and Wall
\* afterwards (again from Start after a reset), so that at most one cell
\* is Start and at most one End, End is designated only if Start is, and
\* the two are distinct cells.
C10_Placement == [](C10_Designation) /\ [][C10_ClickPlaces]_vars

\* Start, End and a Wall placed again after a run and a reset.
C10_Witness ==
    /\ pc = "idle" /\ event = "click"
    /\ start # None /\ end # None /\ Walls # {}
    /\ path_length > 0
    /\ \A n \in Cells : distance[n] = INF

\* ---------------------------------------------------------------- C11
\* handle_mouse_click applied to any cell that is not Empty returns the
\* program state unchanged.
C11_PlaceOnNonEmpty ==
    pc = "idle" =>
        \A n \in Cells : state[n] # EMPTY => place(Cur, n) = Cur

\* A click changes no cell that was not Empty, no bookkeeping field, and
\* moves the start/end designation only onto a cell that was Empty.
C11_ClickKeepsNonEmpty ==
    [][(pc = "idle" /\ event' = "click" /\ pc' = "idle") =>
          /\ \A n \in Cells : state[n] # EMPTY => state'[n] = state[n]
          /\ distance' = distance
          /\ heuristic' = heuristic
          /\ prev' = prev
          /\ visited_count' = visited_count
          /\ path_length' = path_length
          /\ start' # start => (start' \in Cells /\ state[start'] = EMPTY)
          /\ end' # end => (end' \in Cells /\ state[end'] = EMPTY)]_vars

\* C11: a click on a cell that is not Empty (Start, End, Wall, Visited or
\* OnPath) is a no-op: no node's classification or bookkeeping and no
\* start/end designation changes.
C11_NonEmptyClickIsNoOp == []C11_PlaceOnNonEmpty /\ C11_ClickKeepsNonEmpty

\* A click that placed nothing after a run: both endpoints were placed
\* before the run and there is no wall, so the click hit a non-Empty cell.
C11_Witness ==
    /\ pc = "idle"
    /\ event = "click"
    /\ Walls = {}
    /\ \E n \in Cells : state[n] = PATH
    /\ \E n \in Cells : state[n] = PROCESSING

\* ---------------------------------------------------------------- C12
\* C12: a click anywhere in the WIDTH x HEIGHT window, with row and column
\* the pixel coordinates floor-divided by CELL_SIZE, either places on an
\* in-bounds cell or does nothing; it never raises an error.
C12_ClickNeverRaises == pc # "crashed"

\* ---------------------------------------------------------------- C13
\* C13: every algorithm run begins on clean bookkeeping: when run_algorithm
\* was entered every node had distance infinity and no predecessor, and no
\* cell was Visited or OnPath (fresh records IsFresh of the state the run
\* was started in).
C13_RunBeginsClean == pc \in {"search", "reconstruct", "popup"} => fresh

\* ---------------------------------------------------------------- C14
\* A node's priority under A*: distance plus Manhattan distance to End.
C14_F(n) == distance[n] + Manhattan(n, end)

\* C14: in a_star every node dequeued from the frontier has the minimum
\* value of distance + Manhattan heuristic among the nodes in the frontier
\* at that moment.
C14_DequeuesMinF ==
    (pc = "search" /\ alg = "a" /\ frontier # << >>) =>
        LET current == heappop(distance, frontier).item
        IN  \A i \in 1 .. Len(frontier) :
                C14_F(current) <= C14_F(frontier[i])

\* ---------------------------------------------------------------- C15
\* Following prev from n reaches a node without predecessor within
\* ROWS * COLS links.
C15_Acyclic(n) == Len(Chain(n)) <= ROWS * COLS

\* C15: in every reachable state, after any sequence of runs with or
\* without resets, the predecessor links are acyclic and the Start node
\* has no predecessor.
C15_PrevAcyclic ==
    /\ \A n \in Cells : C15_Acyclic(n)
    /\ start # None => prev[start] = None

\* A second run without reset has ended with predecessor links set by both
\* runs' algorithms.
C15_Witness ==
    /\ pc = "popup"
    /\ runs = 2
    /\ ~fresh
    /\ reached
    /\ alg \in {"b", "f"}
    /\ \E n \in Cells : distance[n] # INF /\ n # start
    /\ Len(Chain(end)) >= 3

\* ---------------------------------------------------------------- C16
\* No node occurs twice in the sequence q.
C16_Distinct(q) == \A i, j \in 1 .. Len(q) : q[i] = q[j] => i = j

\* C16: within one run each node is marked Visited and counted at most once
\* (marked lists the nodes the run marked, vc counts them; bfs holds no
\* node twice in its queue nor one it already dequeued), and on success the
\* returned explored count is the number of distinct nodes dequeued before
\* End, End itself not being counted.
C16_CountedOnce ==
    /\ C16_Distinct(marked)
    /\ pc \in {"search", "reconstruct"} => vc = Len(marked)
    /\ pc = "search" =>
           \A i \in 1 .. Len(marked) : state[marked[i]] = PROCESSING
    /\ (pc = "search" /\ alg = "b") =>
           /\ C16_Distinct(frontier)
           /\ \A i \in 1 .. Len(frontier), j \in 1 .. Len(marked) :
                  frontier[i] # marked[j]
    /\ (pc = "popup" /\ reached) =>
           /\ visited_count = Len(marked)
           /\ \A i \in 1 .. Len(marked) : marked[i] # end

\* A run has succeeded after marking at least three nodes, on a grid an
\* earlier run had already marked.
C16_Witness ==
    /\ pc = "popup"
    /\ reached
    /\ ~fresh
    /\ visited_count >= 3
    /\ Len(marked) >= 3

\* ---------------------------------------------------------------- C17
\* A dijkstra or a_star run is in its loop.
C17_InQueueLoop == pc = "search" /\ alg \in {"d", "a"}

\* No iteration of the loop changes the distance of a node that is in the
\* frontier when the iteration begins or when it ends.
C17_FrontierDistanceFixed ==
    [][C17_InQueueLoop =>
          /\ \A i \in 1 .. Len(frontier) :
                 distance'[frontier[i]] = distance[frontier[i]]
          /\ \A i \in 1 .. Len(frontier') :
                 \/ distance'[frontier'[i]] = distance[frontier'[i]]
                 \/ \A j \in 1 .. Len(frontier) : frontier[j] # frontier'[i]]_vars

\* The frontier is a valid binary heap on distance, the nodes dequeued so
\* far were dequeued in nondecreasing order of distance, and no node still
\* in the frontier (End included, when it is dequeued) is nearer than the
\* last one dequeued.
C17_QueueOrder ==
    /\ C17_InQueueLoop =>
           /\ \A i \in 2 .. Len(frontier) :
                  distance[frontier[i \div 2]] <= distance[frontier[i]]
           /\ \A i \in 1 .. Len(frontier) :
                  marked # << >> =>
                      distance[marked[Len(marked)]] <= distance[frontier[i]]
    /\ (alg \in {"d", "a"} /\ pc \in {"search", "reconstruct", "popup"}) =>
           /\ \A i, j \in 1 .. Len(marked) :
                  i <= j => distance[marked[i]] <= distance[marked[j]]
           /\ (reached /\ marked # << >>) =>
                  distance[marked[Len(marked)]] <= distance[end]

\* C17: in dijkstra and a_star the distance of a node is never modified
\* while that node is in the frontier, so the queue order stays valid and
\* nodes are dequeued in nondecreasing order of distance.
C17_FrontierStable == []C17_QueueOrder /\ C17_FrontierDistanceFixed

\* Three nodes have been dequeued and the frontier holds nodes at two
\* different distances.
C17_Witness ==
    /\ C17_InQueueLoop
    /\ Len(marked) >= 3
    /\ \E i, j \in 1 .. Len(frontier) :
           distance[frontier[i]] < distance[frontier[j]]

\* ---------------------------------------------------------------- C18
\* Loop iterations one run can take: every pop of the search loop follows a
\* push, the start node is pushed once and each of the ROWS * COLS nodes
\* pushes its at most four neighbours a bounded number of times (once it is
\* marked in bfs and dfs, once per strict decrease of a neighbour's
\* distance in dijkstra and a_star), one more iteration finds the frontier
\* empty, and reconstruct_path takes one iteration per node of an acyclic
\* chain.
C18_StepBound == 5 * ROWS * COLS + 3

\* No run executes more than C18_StepBound loop iterations.
C18_BoundedRun == steps <= C18_StepBound

\* A run in its search loop or in reconstruct_path reaches show_popup.
C18_ReachesPopup == (pc \in {"search", "reconstruct"}) ~> (pc = "popup")

\* C18: every run of bfs, dfs, dijkstra or a_star, started from any
\* reachable state with Start and End placed, terminates, and so does the
\* path reconstruction: within a bounded number of loop iterations control
\* is back in run_algorithm, which shows the popup.
C18_RunTerminates == []C18_BoundedRun /\ C18_ReachesPopup

\* A run started on a grid left by an earlier run has returned through
\* reconstruct_path.
C18_Witness ==
    /\ pc = "popup"
    /\ runs = 2
    /\ ~fresh
    /\ reached
    /\ path_length >= 2

\* ---------------------------------------------------------------- C19
\* Position of m in the order right, down, left, up around n; 0 when m is
\* not one of the four cells next to n.
C19_Rank(n, m) ==
    IF RowOf(m) = RowOf(n) /\ ColOf(m) = ColOf(n) + 1 THEN 1
    ELSE IF RowOf(m) = RowOf(n) + 1 /\ ColOf(m) = ColOf(n) THEN 2
    ELSE IF RowOf(m) = RowOf(n) /\ ColOf(m) = ColOf(n) - 1 THEN 3
    ELSE IF RowOf(m) = RowOf(n) - 1 /\ ColOf(m) = ColOf(n) THEN 4
    ELSE 0

\* get_neighbors returns cells of the grid only, none of them a Wall, in
\* the order right, down, left, up.
C19_NeighborsOk ==
    \A n \in Cells :
        LET nb == get_neighbors(state, n)
        IN  /\ \A i \in 1 .. Len(nb) :
                   /\ nb[i] \in Cells
                   /\ state[nb[i]] # WALL
                   /\ C19_Rank(n, nb[i]) \in 1 .. 4
            /\ \A i, j \in 1 .. Len(nb) :
                   i < j => C19_Rank(n, nb[i]) < C19_Rank(n, nb[j])

\* A Wall cell stays a Wall in every step but the reset of key C or R.
C19_WallStays ==
    [][\A n \in Cells :
          state[n] = WALL =>
              \/ state'[n] = WALL
              \/ pc = "idle" /\ event' \in {"c", "r"}]_vars

\* C19: get_neighbors never returns a Wall cell (only in-bounds cells, in
\* the order right, down, left, up), and a Wall never becomes Start, End,
\* Visited or OnPath: it stays a Wall until a reset.
C19_WallsRespected == []C19_NeighborsOk /\ C19_WallStays

\* A run has found a path around two walls, each next to a cell the run
\* marked.
C19_Witness ==
    /\ pc = "popup"
    /\ reached
    /\ Cardinality(Walls) = 2
    /\ \A w \in Walls :
           \E n \in AdjacentCells[w] : state[n] \in {PROCESSING, PATH}

====
